---- MODULE Spec2Model ----
(***************************************************************************)
(* Model of example_apps/sim.cpp: the graph-simulation vertex program      *)
(* (SimPragram) with its MatchSet, its clique pattern graph and the        *)
(* iteration hooks, driven by the vertex-centric engine.                   *)
(*                                                                         *)
(* These drivers are given over the same handlers:                         *)
(*   Spec       the engine run: the iteration loop ends as soon as         *)
(*              after_iteration has called set_last_iteration;             *)
(*   SpecKernel the handlers called for every iteration index below        *)
(*              MaxIter, whatever after_iteration requested: update() is   *)
(*              exercised on every value of gcontext.iteration;            *)
(*   SpecPair   two engine runs one after the other on the same graph,     *)
(*              pattern and labels, first without and then with the        *)
(*              selective scheduler;                                       *)
(*   SpecScenarioA  the engine run on the two labelled 3-cliques;          *)
(*   SpecConc   SpecKernel with the updates of an iteration in parallel;   *)
(*   SpecScenarioC  the engine run on the two labelled triangles;          *)
(*   SpecLive   the engine run with the full scan and a fair loop;         *)
(*   SpecReentry  the engine run with update() called again for a vertex   *)
(*              within iteration 1;                                        *)
(*   SpecSched  the handlers called for every iteration index and every    *)
(*              vertex with the scheduler flag set;                        *)
(*   SpecBuild  InitPatternNClique(n) statement by statement.              *)
(*                                                                         *)
(* example_apps/sssp.cpp (SspProgram) is modelled next to it, in the       *)
(* variable ssp, with its own engine run SpecSsp.                          *)
(***************************************************************************)
EXTENDS Integers, FiniteSets, Sequences, TLC

\* ---------------------------------------------------------------- bounds
\* Number of target-graph vertices (ids 0..NumV-1).
NumV == 3
\* Largest pattern size n handed to InitPatternNClique.
MaxPattern == 3
\* Size of the label alphabet: the source draws vertex and pattern labels with
\* rand() % 5, the model draws them from 0..NumLabels-1.
NumLabels == 3
\* Edge payloads found in the shard files are drawn from 0..MaxEdgeVal.
MaxEdgeVal == 1
\* niters: the engine runs iterations 0..MaxIter-1.
MaxIter == 4
\* niters of the sssp.cpp run: iterations 0..SspMaxIter-1.
SspMaxIter == 3

\* ------------------------------------------------------ program constants
\* add_task(rand() % 5)
TaskMod == 5

Labels == 0..(NumLabels - 1)
EdgeVals == 0..MaxEdgeVal

VARIABLES
    num_vertices,    \* engine.num_vertices(): the target ids are 0..num_vertices-1
    target,          \* target graph: set of directed edges <<src, dst>>
    edata,           \* payload of each target edge (graphchi_edge::get_data)
    vdata,           \* data of each target vertex (graphchi_vertex::get_data)
    pattern,         \* ImmutableCSR * pattern_
    builder,         \* the call of InitPatternNClique in progress (SpecBuild)
    ssp,             \* the run of SspProgram (sssp.cpp): graph, vertex and edge
                     \* data, gcontext.iteration and the engine's position
    indicator,       \* match_set_->indicator_
    sim_sets,        \* match_set_->sim_sets_
    converged,       \* SimPragram::converged
    iterationcount,  \* global iterationcount
    scheduler,       \* global scheduler flag
    iteration,       \* gcontext.iteration
    last_iteration,  \* gcontext.last_iteration (-1: not set)
    next_tasks,      \* scheduler: vertices queued for the next iteration
    scope,           \* vertices the engine runs in this iteration
    todo,            \* vertices of scope not yet updated in this iteration
    running,         \* vertices whose update is in progress (SpecConc)
    pc,              \* engine position: "before", "exec", "after", "done"
    pruned,          \* history: a bit was removed during this iteration
    ends,            \* history: sim_sets at the end of iterations 1, 2, ...
    quiet,           \* history: last finished iteration was a full-scan
                     \*          refinement iteration without a prune
    run,             \* history: 1 for the first run, 2 for the second (SpecPair)
    result1          \* history: sim_sets at the end of the first run (SpecPair)

vars == <<num_vertices, target, edata, vdata, pattern, builder, ssp, indicator,
          sim_sets, converged, iterationcount, scheduler, iteration,
          last_iteration, next_tasks, scope, todo, running, pc, pruned, ends,
          quiet, run, result1>>

inputs == <<num_vertices, target, edata, pattern, builder, ssp>>
\* everything but the call of InitPatternNClique in progress
run_state == <<num_vertices, target, edata, vdata, pattern, ssp, indicator,
               sim_sets, converged, iterationcount, scheduler, iteration,
               last_iteration, next_tasks, scope, todo, running, pc, pruned,
               ends, quiet, run, result1>>
\* everything but the run of SspProgram
sim_state == <<num_vertices, target, edata, vdata, pattern, builder, indicator,
               sim_sets, converged, iterationcount, scheduler, iteration,
               last_iteration, next_tasks, scope, todo, running, pc, pruned,
               ends, quiet, run, result1>>
history == <<ends, quiet, run, result1>>

\* Target vertex ids
V == 0..(num_vertices - 1)
\* Slots of the MatchSet that the run can index: target ids and pattern ids
\* (the source allocates 2147483647 rows).
Rows == 0..((IF num_vertices > MaxPattern THEN num_vertices ELSE MaxPattern) - 1)

\* ------------------------------------------------------------ target graph
AllPairs == {e \in V \X V : e[1] # e[2]}

\* The target graphs the runs are made on: no edge, one edge and an isolated
\* vertex, a chain, and a directed cycle.
TargetGraphs ==
    { {},
      {<<0, 1>>},
      {<<i, i + 1>> : i \in 0..(NumV - 2)},
      {<<i, (i + 1) % NumV>> : i \in 0..(NumV - 1)} \ {<<0, 0>>} }

InEdges(g, u) == {e \in g : e[2] = u}
OutEdges(g, u) == {e \in g : e[1] = u}
\* graphchi_vertex::num_edges(): in-edges plus out-edges
NumEdges(g, u) == Cardinality(InEdges(g, u)) + Cardinality(OutEdges(g, u))
\* graphchi_edge::vertex_id(): the endpoint that is not u
Opposite(e, u) == IF e[1] = u THEN e[2] ELSE e[1]
Neighbors(g, u) == {Opposite(e, u) : e \in InEdges(g, u) \cup OutEdges(g, u)}

\* graphchi_vertex::edge(0): the in-edges come first, then the out-edges, each
\* in the order of the other endpoint's id.
Edge0(g, u) ==
    IF InEdges(g, u) # {}
    THEN CHOOSE e \in InEdges(g, u) : \A f \in InEdges(g, u) : e[1] <= f[1]
    ELSE CHOOSE e \in OutEdges(g, u) : \A f \in OutEdges(g, u) : e[2] <= f[2]

\* ----------------------------------------------------------- pattern graph
\* InitPatternNClique(n), with labels[i] the value rand() % 5 gave vertex i.
InitPatternNClique(n, labels) ==
    [num_vertexes_ |-> n,
     num_edges_ |-> n * (n - 1),
     vertexes_ |-> [i \in 0..(n - 1) |->
                      [vid_ |-> i, label_ |-> labels[i],
                       indegree_ |-> n - 1, outdegree_ |-> n - 1]]]

PatN == pattern.num_vertexes_
PatV == 0..(PatN - 1)
PLabel(i) == pattern.vertexes_[i].label_
POutdegree(i) == pattern.vertexes_[i].outdegree_

\* ------------------------------------------------- InitPatternNClique steps
\* The call InitPatternNClique(n) statement by statement. builder holds the
\* argument n, the ImmutableCSR under construction (graph), the Vertex of the
\* current round (vertex), the loop counters i and j, the position pc, and
\* oob, the writes made past the end of an out_edges_ array (history).
NoVertex == [vid_ |-> 0, label_ |-> 0, indegree_ |-> 0, outdegree_ |-> 0,
             out_edges_ |-> <<>>]
NoGraph == [num_vertexes_ |-> 0, num_edges_ |-> 0, vertexes_ |-> <<>>]
\* no call in progress: the pattern of the run is the one InitInputs gives
BuilderIdle == [pc |-> "idle", n |-> 0, graph |-> NoGraph, vertex |-> NoVertex,
                i |-> 0, j |-> 0, oob |-> {}]

\* Values the unsigned slots of a fresh malloc block may hold.
Indeterminate == 0..(MaxPattern - 1)
\* malloc(sizeof(unsigned) * (n - 1)): slots 0..n-2, contents indeterminate
MallocOutEdges(n) == [0..(n - 2) -> Indeterminate]

\* lines 124-127: the graph object, its two counts and the vertex array
BuildEntry ==
    /\ builder.pc = "entry"
    /\ builder' = [builder EXCEPT
                     !.graph = [num_vertexes_ |-> builder.n,
                                num_edges_ |-> builder.n * (builder.n - 1),
                                vertexes_ |-> <<>>],
                     !.i = 0,
                     !.pc = "vertex"]
    /\ UNCHANGED run_state

\* lines 128-134: a round of the outer loop begins, a Vertex is filled in
BuildVertex ==
    /\ builder.pc = "vertex"
    /\ builder.i < builder.graph.num_vertexes_
    /\ \E label \in Labels, fresh \in MallocOutEdges(builder.n) :
         builder' = [builder EXCEPT
                       !.vertex = [vid_ |-> builder.i,
                                   label_ |-> label,
                                   indegree_ |-> builder.n - 1,
                                   outdegree_ |-> builder.n - 1,
                                   out_edges_ |-> fresh],
                       !.j = 0,
                       !.pc = "edge"]
    /\ UNCHANGED run_state

\* lines 135-139, i == j: continue
BuildSkip ==
    /\ builder.pc = "edge"
    /\ builder.j < builder.graph.num_vertexes_
    /\ builder.i = builder.j
    /\ builder' = [builder EXCEPT !.j = @ + 1]
    /\ UNCHANGED run_state

\* lines 135-139, i != j and j inside the array: out_edges_[j] = i
BuildEdge ==
    /\ builder.pc = "edge"
    /\ builder.j < builder.graph.num_vertexes_
    /\ builder.i # builder.j
    /\ builder.j \in DOMAIN builder.vertex.out_edges_
    /\ builder' = [builder EXCEPT !.vertex.out_edges_[builder.j] = builder.i,
                                  !.j = @ + 1]
    /\ UNCHANGED run_state

\* lines 135-139, i != j and j = n - 1: out_edges_[n - 1] = i lands past the
\* end of the malloc block. The write is undefined: the call may go on with
\* the graph as it is, or the process may end.
BuildEdgeOutOfBounds ==
    /\ builder.pc = "edge"
    /\ builder.j < builder.graph.num_vertexes_
    /\ builder.i # builder.j
    /\ builder.j \notin DOMAIN builder.vertex.out_edges_
    /\ \E outcome \in {"edge", "crashed"} :
         builder' = [builder EXCEPT
                       !.oob = @ \cup {<<builder.i, builder.j>>},
                       !.j = @ + 1,
                       !.pc = outcome]
    /\ UNCHANGED run_state

\* lines 140-141: the inner loop is over, graph->vertexes_[i] = vertex
BuildStore ==
    /\ builder.pc = "edge"
    /\ builder.j >= builder.graph.num_vertexes_
    /\ builder' = [builder EXCEPT
                     !.graph.vertexes_ =
                         [k \in 0..builder.i |->
                            IF k = builder.i THEN builder.vertex
                            ELSE builder.graph.vertexes_[k]],
                     !.i = @ + 1,
                     !.pc = "vertex"]
    /\ UNCHANGED run_state

\* line 143: return graph
BuildReturn ==
    /\ builder.pc = "vertex"
    /\ builder.i >= builder.graph.num_vertexes_
    /\ builder' = [builder EXCEPT !.pc = "returned"]
    /\ UNCHANGED run_state

\* ------------------------------------------------------- sssp.cpp: SspProgram
\* ssp holds the graph of the run (graph, a set of directed edges over the
\* vertex ids SspV), the data of every vertex and edge (vdata, edata),
\* gcontext.iteration, the vertices not yet updated in the iteration (todo)
\* and the engine's position (pc).
SspV == 0..(NumV - 1)
SspGraphs == SUBSET {e \in SspV \X SspV : e[1] # e[2]}
\* no run of SspProgram
SspIdle == [pc |-> "idle", graph |-> {}, vdata |-> <<>>, edata |-> <<>>,
            iteration |-> 0, todo |-> {}]

\* the data update(v) leaves in vertex v
SspVertexData(v) ==
    IF ssp.iteration = 0
    THEN IF v = 0 THEN 1 ELSE ssp.vdata[v]
    ELSE IF \E e \in InEdges(ssp.graph, v) : ssp.edata[e] # 0
         THEN 1
         ELSE ssp.vdata[v]

\* the data update(v) leaves in edge e
SspEdgeData(v, e) ==
    IF e \in OutEdges(ssp.graph, v) /\ (ssp.iteration # 0 \/ v = 0)
    THEN 1
    ELSE ssp.edata[e]

\* SspProgram::before_iteration (empty), and the engine opening the iteration
\* on every vertex
SspBeforeIteration ==
    /\ ssp.pc = "before"
    /\ ssp' = [ssp EXCEPT !.todo = SspV, !.pc = "exec"]
    /\ UNCHANGED sim_state

\* SspProgram::update(vertex, gcontext); the engine runs the vertices of an
\* iteration in the order of their ids
SspUpdate(v) ==
    /\ ssp.pc = "exec"
    /\ v \in ssp.todo
    /\ \A w \in ssp.todo : v <= w
    /\ ssp' = [ssp EXCEPT
                 !.vdata = [@ EXCEPT ![v] = SspVertexData(v)],
                 !.edata = [e \in ssp.graph |-> SspEdgeData(v, e)],
                 !.todo = @ \ {v}]
    /\ UNCHANGED sim_state

\* SspProgram::after_iteration (empty), and the engine going on to the next
\* iteration
SspAfterIteration ==
    /\ ssp.pc = "exec"
    /\ ssp.todo = {}
    /\ ssp.iteration + 1 < SspMaxIter
    /\ ssp' = [ssp EXCEPT !.iteration = @ + 1, !.pc = "before"]
    /\ UNCHANGED sim_state

\* SspProgram::after_iteration (empty) after the last of the niters iterations
SspFinish ==
    /\ ssp.pc = "exec"
    /\ ssp.todo = {}
    /\ ssp.iteration + 1 >= SspMaxIter
    /\ ssp' = [ssp EXCEPT !.pc = "done"]
    /\ UNCHANGED sim_state

\* ---------------------------------------------------------------- MatchSet
\* MatchSet(x, y, true): indicator cleared, one cleared bitmap per row.
NewIndicator == [r \in Rows |-> FALSE]
NewSimSets == [r \in Rows |-> {}]

\* --------------------------------------------------------------- scheduler
\* scheduler->remove_tasks(v, v)
RemoveTasks(nt, v) == nt \ {v}
\* scheduler->add_task(t): ids outside the vertex space are left to the engine
AddTask(nt, t) == IF t \in V THEN nt \cup {t} ELSE nt
\* scheduler->add_task(id, true) for every id of ts: queued for the next
\* iteration (the second argument is not modelled)
AddTasks(nt, ts) == nt \cup (ts \cap V)

\* ------------------------------------------------------------------ kernel
\* kernel_check_childs(u, pattern_vid): the loop over u's edges returns in its
\* first round, so only edge(0) is looked at; with no edge the function ends
\* without a return statement and the caller reads an indeterminate value (ub).
kernel_check_childs(u, pattern_vid, ub) ==
    IF NumEdges(target, u) = 0
    THEN ub
    ELSE LET nbr_u_label == edata[Edge0(target, u)]
             hits == {j \in 0..(POutdegree(pattern_vid) - 1) :
                        /\ nbr_u_label = PLabel(j)
                        /\ indicator[pattern.vertexes_[j].vid_]}
         IN Cardinality(hits) = POutdegree(pattern_vid)

CheckU(u, pattern_vid, ub) == kernel_check_childs(u, pattern_vid, ub)

\* Variant of InitialMarks that does not compare the labels.
InitialMarksAnyLabel(v) ==
    IF indicator[v] THEN {} ELSE PatV

\* Variant of InitialMarks that stops at the first pattern vertex of equal label.
InitialMarksFirst(v) ==
    IF indicator[v] THEN {}
    ELSE {p \in PatV : /\ vdata[v] = PLabel(p)
                       /\ \A q \in PatV : vdata[v] = PLabel(q) => p <= q}

\* iteration == 1: the pattern vertices that update() marks for vertex v
InitialMarks(v) ==
    IF indicator[v] THEN {} ELSE {p \in PatV : vdata[v] = PLabel(p)}

\* iteration > 1: the rows i whose bit pattern_vid = i update(v) removes
PrunedRows(v, ub) ==
    {i \in PatV : /\ pattern.vertexes_[i].vid_ \in sim_sets[i]
                  /\ ~CheckU(v, pattern.vertexes_[i].vid_, ub[i])}

\* Variant of RefinedSets that flips the bit of every row whose check fails,
\* without the get_bit guard.
RefinedSetsFlip(v, ub) ==
    [r \in Rows |->
        IF r \in PatV /\ ~CheckU(v, pattern.vertexes_[r].vid_, ub[r])
        THEN IF r \in sim_sets[r] THEN sim_sets[r] \ {r} ELSE sim_sets[r] \cup {r}
        ELSE sim_sets[r]]

\* sim_sets_ after update(v) at iteration > 1
RefinedSets(v, ub) ==
    [r \in Rows |-> IF r \in PrunedRows(v, ub)
                    THEN sim_sets[r] \ {pattern.vertexes_[r].vid_}
                    ELSE sim_sets[r]]

\* converged after update(v) at iteration > 1: the assignment sits inside the
\* loop over v's edges
RefinedConverged(v, ub) ==
    IF PrunedRows(v, ub) # {} /\ NumEdges(target, v) > 0
    THEN FALSE
    ELSE converged

\* rand() % 5 for the label of v
SeedChoices(v) == IF run = 2 THEN {vdata[v]} ELSE Labels
\* rand() % 5 for add_task
TaskChoices == IF scheduler THEN 0..(TaskMod - 1) ELSE {0}
\* the values a call of kernel_check_childs without a return may give
UbChoices(v) ==
    IF iteration > 1 /\ NumEdges(target, v) = 0
    THEN [PatV -> BOOLEAN]
    ELSE {[i \in PatV |-> FALSE]}

\* SimPragram::update(vertex, gcontext)
UpdateBody(v, l, t, ub) ==
    LET nt0 == IF scheduler THEN RemoveTasks(next_tasks, v) ELSE next_tasks
    IN
    /\ vdata' = IF iteration = 0 THEN [vdata EXCEPT ![v] = l] ELSE vdata
    /\ indicator' = IF iteration = 1 /\ InitialMarks(v) # {}
                    THEN [indicator EXCEPT ![v] = TRUE]
                    ELSE indicator
    /\ sim_sets' = IF iteration = 1
                   THEN [sim_sets EXCEPT ![v] = @ \cup InitialMarks(v)]
                   ELSE IF iteration > 1 THEN RefinedSets(v, ub)
                   ELSE sim_sets
    /\ converged' = IF iteration > 1 THEN RefinedConverged(v, ub) ELSE converged
    /\ next_tasks' = IF ~scheduler THEN nt0
                     ELSE IF iteration = 0 THEN AddTask(nt0, t)
                     ELSE IF iteration > 1 /\ PrunedRows(v, ub) # {}
                     THEN AddTasks(nt0, Neighbors(target, v))
                     ELSE nt0
    /\ pruned' = (pruned \/ (iteration > 1 /\ PrunedRows(v, ub) # {}))

\* The engine runs the vertices of an iteration in the order of their ids.
NextVertex(v) == v \in todo /\ \A w \in todo : v <= w

Update(v) ==
    /\ pc = "exec"
    /\ NextVertex(v)
    /\ \E l \in SeedChoices(v), t \in TaskChoices, ub \in UbChoices(v) :
           UpdateBody(v, l, t, ub)
    /\ todo' = todo \ {v}
    /\ UNCHANGED <<inputs, iterationcount, scheduler, iteration, last_iteration,
                   scope, running, pc, history>>

\* SimPragram::before_iteration, and the engine opening the iteration: without
\* the scheduler every vertex is run, with it the queued ones (all at iteration 0)
BeforeIteration ==
    /\ pc = "before"
    /\ iterationcount' = iterationcount + 1
    /\ converged' = (iteration > 0)
    /\ scope' = IF scheduler /\ iteration > 0 THEN next_tasks ELSE V
    /\ todo' = scope'
    /\ next_tasks' = {}
    /\ pruned' = FALSE
    /\ pc' = "exec"
    /\ UNCHANGED <<inputs, vdata, indicator, sim_sets, scheduler, iteration,
                   last_iteration, running, history>>

\* Variant of AfterIteration that never calls set_last_iteration.
AfterIterationNoStop ==
    /\ pc = "exec"
    /\ todo = {}
    /\ running = {}
    /\ ends' = IF iteration >= 1 THEN Append(ends, sim_sets) ELSE ends
    /\ quiet' = (iteration > 1 /\ ~pruned /\ scope = V)
    /\ pc' = "after"
    /\ UNCHANGED <<inputs, vdata, indicator, sim_sets, converged, iterationcount,
                   scheduler, iteration, last_iteration, next_tasks, scope, todo,
                   running, pruned, run, result1>>

\* SimPragram::after_iteration, called when every vertex of the iteration is done
AfterIteration ==
    /\ pc = "exec"
    /\ todo = {}
    /\ running = {}
    /\ last_iteration' = IF converged THEN iteration ELSE last_iteration
    /\ ends' = IF iteration >= 1 THEN Append(ends, sim_sets) ELSE ends
    /\ quiet' = (iteration > 1 /\ ~pruned /\ scope = V)
    /\ pc' = "after"
    /\ UNCHANGED <<inputs, vdata, indicator, sim_sets, converged, iterationcount,
                   scheduler, iteration, next_tasks, scope, todo, running, pruned,
                   run, result1>>

\* The engine's loop: the run ends after the iteration named by
\* set_last_iteration, or after niters iterations.
EngineLast == last_iteration >= 0 \/ iteration + 1 >= MaxIter

EngineAdvance ==
    /\ pc = "after"
    /\ ~EngineLast
    /\ iteration' = iteration + 1
    /\ pc' = "before"
    /\ UNCHANGED <<inputs, vdata, indicator, sim_sets, converged, iterationcount,
                   scheduler, last_iteration, next_tasks, scope, todo, running,
                   pruned, history>>

EngineStop ==
    /\ pc = "after"
    /\ EngineLast
    /\ pc' = "done"
    /\ UNCHANGED <<inputs, vdata, indicator, sim_sets, converged, iterationcount,
                   scheduler, iteration, last_iteration, next_tasks, scope, todo,
                   running, pruned, history>>

\* main(): the pattern is built, the MatchSet allocated and the engine started
InitInputs ==
    /\ num_vertices = NumV
    /\ builder = BuilderIdle
    /\ ssp = SspIdle
    /\ target \in TargetGraphs
    /\ edata \in [target -> EdgeVals]
    /\ \E n \in 1..MaxPattern :
         \E labels \in [0..(n - 1) -> Labels] :
             pattern = InitPatternNClique(n, labels)

InitRun ==
    /\ vdata = [v \in V |-> 0]
    /\ indicator = NewIndicator
    /\ sim_sets = NewSimSets
    /\ converged = FALSE
    /\ iterationcount = 0
    /\ iteration = 0
    /\ last_iteration = -1
    /\ next_tasks = {}
    /\ scope = {}
    /\ todo = {}
    /\ running = {}
    /\ pc = "before"
    /\ pruned = FALSE
    /\ ends = <<>>
    /\ quiet = FALSE
    /\ run = 1
    /\ result1 = NewSimSets

Init ==
    /\ InitInputs
    /\ InitRun
    /\ scheduler \in BOOLEAN

Next ==
    \/ BeforeIteration
    \/ \E v \in V : Update(v)
    \/ AfterIteration
    \/ EngineAdvance
    \/ EngineStop

Spec == Init /\ [][Next]_vars

\* --------------------------------------------------------------- SpecLive
\* The engine run with the full scan (scheduler = 0). The engine's loop is
\* sequential and has no wait in it: whenever a hook or an update can be
\* called it is called, which is weak fairness of Next.
InitFullScan ==
    /\ InitInputs
    /\ InitRun
    /\ scheduler = FALSE

SpecLive == InitFullScan /\ [][Next]_vars /\ WF_vars(Next)

\* ------------------------------------------------------------ SpecReentry
\* The engine run with the full scan in which update() may be called again,
\* within iteration 1, for a vertex it has already been called for.
Reenter(v) ==
    /\ pc = "exec"
    /\ iteration = 1
    /\ v \in scope \ todo
    /\ \E l \in SeedChoices(v), t \in TaskChoices, ub \in UbChoices(v) :
           UpdateBody(v, l, t, ub)
    /\ UNCHANGED <<inputs, iterationcount, scheduler, iteration, last_iteration,
                   scope, todo, running, pc, history>>

NextReentry ==
    \/ BeforeIteration
    \/ \E v \in V : Update(v)
    \/ \E v \in V : Reenter(v)
    \/ AfterIteration
    \/ EngineAdvance
    \/ EngineStop

SpecReentry == InitFullScan /\ [][NextReentry]_vars

\* ------------------------------------------------------------- SpecKernel
\* The handlers called for every iteration index below MaxIter: the driver
\* records what after_iteration asked for and goes on to the next index.
KernelAdvance ==
    /\ pc = "after"
    /\ iteration + 1 < MaxIter
    /\ iteration' = iteration + 1
    /\ pc' = "before"
    /\ UNCHANGED <<inputs, vdata, indicator, sim_sets, converged, iterationcount,
                   scheduler, last_iteration, next_tasks, scope, todo, running,
                   pruned, history>>

KernelStop ==
    /\ pc = "after"
    /\ iteration + 1 >= MaxIter
    /\ pc' = "done"
    /\ UNCHANGED <<inputs, vdata, indicator, sim_sets, converged, iterationcount,
                   scheduler, iteration, last_iteration, next_tasks, scope, todo,
                   running, pruned, history>>

NextKernel ==
    \/ BeforeIteration
    \/ \E v \in V : Update(v)
    \/ AfterIteration
    \/ KernelAdvance
    \/ KernelStop

SpecKernel == Init /\ [][NextKernel]_vars

\* -------------------------------------------------------------- SpecSched
\* The handlers called for every iteration index below MaxIter with the
\* scheduler flag set, by a driver that runs every vertex in every iteration:
\* update() makes its remove_tasks and add_task calls, and the refinement
\* branch is exercised with them. (With the queue deciding the vertices run,
\* nothing is queued during iteration 1 and no update is called after it.)
BeforeIterationFull ==
    /\ pc = "before"
    /\ iterationcount' = iterationcount + 1
    /\ converged' = (iteration > 0)
    /\ scope' = V
    /\ todo' = scope'
    /\ next_tasks' = {}
    /\ pruned' = FALSE
    /\ pc' = "exec"
    /\ UNCHANGED <<inputs, vdata, indicator, sim_sets, scheduler, iteration,
                   last_iteration, running, history>>

InitSched ==
    /\ InitInputs
    /\ InitRun
    /\ scheduler = TRUE

NextSched ==
    \/ BeforeIterationFull
    \/ \E v \in V : Update(v)
    \/ AfterIteration
    \/ KernelAdvance
    \/ KernelStop

SpecSched == InitSched /\ [][NextSched]_vars

\* --------------------------------------------------------------- SpecPair
\* main() run twice on the same graph files and the same pattern: first with
\* scheduler = 0, then with scheduler = 1. The second run allocates a new
\* MatchSet; SeedChoices gives every vertex the label it drew in the first run.
Restart ==
    /\ pc = "done"
    /\ run = 1
    /\ result1' = sim_sets
    /\ run' = 2
    /\ scheduler' = TRUE
    /\ indicator' = NewIndicator
    /\ sim_sets' = NewSimSets
    /\ converged' = FALSE
    /\ iterationcount' = 0
    /\ iteration' = 0
    /\ last_iteration' = -1
    /\ next_tasks' = {}
    /\ scope' = {}
    /\ todo' = {}
    /\ pruned' = FALSE
    /\ ends' = <<>>
    /\ quiet' = FALSE
    /\ pc' = "before"
    /\ UNCHANGED <<inputs, vdata, running>>

InitPair ==
    /\ InitInputs
    /\ InitRun
    /\ scheduler = FALSE

NextPair ==
    \/ BeforeIteration
    \/ \E v \in V : Update(v)
    \/ AfterIteration
    \/ EngineAdvance
    \/ EngineStop
    \/ Restart

SpecPair == InitPair /\ [][NextPair]_vars

\* ---------------------------------------------------------- SpecScenarioA
\* The engine run on the inputs of Scenario A: the target is the complete
\* graph on vertices 0, 1, 2 (one payload on every edge) and the pattern is
\* InitPatternNClique(3) with the three labels 0, 1, 2 in some order.
ScenarioClique == {e \in (0..2) \X (0..2) : e[1] # e[2]}

InitScenarioA ==
    /\ num_vertices = 3
    /\ builder = BuilderIdle
    /\ ssp = SspIdle
    /\ target = ScenarioClique
    /\ \E d \in EdgeVals : edata = [e \in target |-> d]
    /\ \E labels \in [0..2 -> 0..2] :
         /\ {labels[i] : i \in 0..2} = 0..2
         /\ pattern = InitPatternNClique(3, labels)
    /\ InitRun
    /\ scheduler \in BOOLEAN

SpecScenarioA == InitScenarioA /\ [][Next]_vars

\* ---------------------------------------------------------- SpecScenarioC
\* The engine run on the inputs of Scenario C: the target is made of two
\* disjoint triangles, vertices 0, 1, 2 with an edge in both directions
\* between every two of them, and vertices 3, 4, 5 with the same edges but
\* for 3 -> 4; the pattern is InitPatternNClique(3) with the three labels
\* 0, 1, 2 in some order; every vertex is run in every iteration (the
\* default, scheduler = 0).
IntactTriangle == {e \in (0..2) \X (0..2) : e[1] # e[2]}
DeficientTriangle == {e \in (3..5) \X (3..5) : e[1] # e[2]} \ {<<3, 4>>}

InitScenarioC ==
    /\ num_vertices = 6
    /\ builder = BuilderIdle
    /\ ssp = SspIdle
    /\ target = IntactTriangle \cup DeficientTriangle
    /\ \E d \in EdgeVals : edata = [e \in target |-> d]
    /\ \E labels \in [0..2 -> 0..2] :
         /\ {labels[i] : i \in 0..2} = 0..2
         /\ pattern = InitPatternNClique(3, labels)
    /\ InitRun
    /\ scheduler = FALSE

SpecScenarioC == InitScenarioC /\ [][Next]_vars

\* -------------------------------------------------------------- SpecBuild
\* InitPatternNClique(n) called on its own, for every n from 0 to MaxPattern
\* (the parameter is a size_t: it has no negative value).
InitBuild ==
    /\ num_vertices = NumV
    /\ target = {}
    /\ edata = [e \in target |-> 0]
    /\ pattern = NoGraph
    /\ \E n \in 0..MaxPattern :
         builder = [BuilderIdle EXCEPT !.pc = "entry", !.n = n]
    /\ ssp = SspIdle
    /\ InitRun
    /\ scheduler = FALSE

NextBuild ==
    \/ BuildEntry
    \/ BuildVertex
    \/ BuildSkip
    \/ BuildEdge
    \/ BuildEdgeOutOfBounds
    \/ BuildStore
    \/ BuildReturn

SpecBuild == InitBuild /\ [][NextBuild]_vars

\* ----------------------------------------------------------------- SpecSsp
\* main() of sssp.cpp: the engine run of SspProgram over every graph on the
\* vertices SspV, with the data of every vertex and edge 0 at the start.
InitSsp ==
    /\ num_vertices = NumV
    /\ target = {}
    /\ edata = [e \in target |-> 0]
    /\ pattern = NoGraph
    /\ builder = BuilderIdle
    /\ \E g \in SspGraphs :
         ssp = [pc |-> "before", graph |-> g, vdata |-> [v \in SspV |-> 0],
                edata |-> [e \in g |-> 0], iteration |-> 0, todo |-> {}]
    /\ InitRun
    /\ scheduler = FALSE

NextSsp ==
    \/ SspBeforeIteration
    \/ \E v \in SspV : SspUpdate(v)
    \/ SspAfterIteration
    \/ SspFinish

SpecSsp == InitSsp /\ [][NextSsp]_vars

\* --------------------------------------------------------------- SpecConc
\* The handlers called for every iteration index below MaxIter, with the
\* updates of an iteration run in parallel by the engine: an update is begun
\* only for a vertex that has no edge to a vertex whose update is in progress.
\* The full scan is modelled (scheduler = 0).
Adjacent(a, b) == b \in Neighbors(target, a)

\* The rows update(v) can clear at iteration > 1, over the values an
\* edgeless kernel_check_childs can give.
MayPrune(v) == UNION {PrunedRows(v, ub) : ub \in UbChoices(v)}

\* The MatchSet locations update(v) reads at the current iteration.
ReadSet(v) ==
    IF iteration = 1 THEN {<<"indicator_", v>>}
    ELSE IF iteration > 1
    THEN {<<"sim_sets_", i>> : i \in PatV}
         \cup (IF NumEdges(target, v) = 0 THEN {}
               ELSE {<<"indicator_", pattern.vertexes_[j].vid_>> :
                       j \in {k \in PatV :
                                 /\ \E i \in PatV : i \in sim_sets[i]
                                                     /\ k < POutdegree(i)
                                 /\ edata[Edge0(target, v)] = PLabel(k)}})
    ELSE {}

\* The MatchSet locations update(v) writes at the current iteration.
WriteSet(v) ==
    IF iteration = 1
    THEN IF InitialMarks(v) # {}
         THEN {<<"indicator_", v>>, <<"sim_sets_", v>>}
         ELSE {}
    ELSE IF iteration > 1 THEN {<<"sim_sets_", i>> : i \in MayPrune(v)}
    ELSE {}

UpdateBegin(v) ==
    /\ pc = "exec"
    /\ v \in todo
    /\ \A w \in running : ~Adjacent(v, w)
    /\ running' = running \cup {v}
    /\ todo' = todo \ {v}
    /\ UNCHANGED <<inputs, vdata, indicator, sim_sets, converged, iterationcount,
                   scheduler, iteration, last_iteration, next_tasks, scope, pc,
                   pruned, history>>

UpdateEnd(v) ==
    /\ pc = "exec"
    /\ v \in running
    /\ \E l \in SeedChoices(v), t \in TaskChoices, ub \in UbChoices(v) :
           UpdateBody(v, l, t, ub)
    /\ running' = running \ {v}
    /\ UNCHANGED <<inputs, iterationcount, scheduler, iteration, last_iteration,
                   scope, todo, pc, history>>

InitConc ==
    /\ InitInputs
    /\ InitRun
    /\ scheduler = FALSE

NextConc ==
    \/ BeforeIteration
    \/ \E v \in V : UpdateBegin(v)
    \/ \E v \in V : UpdateEnd(v)
    \/ AfterIteration
    \/ KernelAdvance
    \/ KernelStop

SpecConc == InitConc /\ [][NextConc]_vars

\* ================================================================ claims
\* The pattern built is meant as a clique: the out-neighbours of p are the
\* other pattern vertices.
PatOut(p) == PatV \ {p}

\* One refinement step of the simulation relation R over V \X PatV.
SimStep(R) ==
    {up \in R : \A q \in PatOut(up[2]) :
                   \E e \in OutEdges(target, up[1]) : <<e[2], q>> \in R}

RECURSIVE SimGfp(_)
SimGfp(R) == IF SimStep(R) = R THEN R ELSE SimGfp(SimStep(R))

\* The greatest graph-simulation relation of the target with its current labels.
GreatestSimulation ==
    SimGfp({up \in V \X PatV : vdata[up[1]] = PLabel(up[2])})

\* C1: when the run has terminated, u is a candidate for p iff (u, p) is in the
\* greatest graph-simulation relation.
C1_FinalIsGreatestSimulation ==
    pc = "done" =>
        \A u \in V : \A p \in PatV :
            (p \in sim_sets[u]) <=> (<<u, p>> \in GreatestSimulation)

\* C2: hasAny[u] is true iff the candidate bit-set of u has a set bit.
C2_IndicatorIffAnyBit ==
    \A u \in V : indicator[u] <=> (sim_sets[u] # {})

\* C3: candidate sets only shrink after iteration 1: what is a candidate at the
\* end of iteration j was a candidate at the end of every iteration i, 1 <= i < j.
C3_Monotone ==
    \A i \in 1..Len(ends) : \A j \in 1..Len(ends) :
        i < j => \A u \in V : ends[j][u] \subseteq ends[i][u]

\* C3 witness: two iterations have ended, the second removed a candidate and
\* kept another.
C3_Witness ==
    /\ Len(ends) >= 2
    /\ \E u \in V : ends[2][u] # ends[1][u]
    /\ \E u \in V : ends[2][u] # {}

\* C4: from iteration 1 on, a candidate p of u carries the label of u; a target
\* vertex whose label is no pattern label has no candidate.
C4_LabelNecessity ==
    iteration >= 1 =>
        \A u \in V :
            /\ \A p \in sim_sets[u] : p \in PatV /\ vdata[u] = PLabel(p)
            /\ (\A p \in PatV : vdata[u] # PLabel(p)) => sim_sets[u] = {}

\* C4 witness: a refinement iteration is running, one target vertex has a
\* candidate and another, whose label is no pattern label, has been updated.
C4_Witness ==
    /\ iteration >= 2
    /\ pc = "after"
    /\ \E u \in V : sim_sets[u] # {}
    /\ \E u \in V : u \in scope /\ \A p \in PatV : vdata[u] # PLabel(p)

\* C5: at the end of an iteration >= 1 the stop is requested exactly when no
\* prune happened during that iteration.
C5_ConvergedIffNoPrune ==
    (pc = "after" /\ iteration >= 1) =>
        ((last_iteration = iteration) <=> ~pruned)

\* C6: after a full-scan refinement iteration without a prune, running the
\* kernel again prunes nothing.
C6_FixedPointStable ==
    quiet => ~pruned

\* C8: a target vertex without out-edges whose label is that of a pattern
\* vertex p of out-degree > 0 is a candidate for p at the end of iteration 1
\* and no longer at the end of iteration 2.
C8_ScenarioD ==
    Len(ends) >= 2 =>
        \A u \in V : \A p \in PatV :
            (/\ OutEdges(target, u) = {}
             /\ vdata[u] = PLabel(p)
             /\ POutdegree(p) > 0)
            => (p \in ends[1][u] /\ p \notin ends[2][u])

\* C7: started on the same graph, pattern and labels, the run with the
\* selective scheduler ends with the candidate sets of the run without it.
C7_SchedulingEquivalence ==
    (run = 2 /\ pc = "done") => \A u \in V : sim_sets[u] = result1[u]

\* C10: Scenario A. When the run on the two cliques has ended and the target
\* vertices carry the labels 0, 1, 2, every target vertex has exactly one
\* candidate, the pattern vertex with its label.
C10_ScenarioA ==
    (pc = "done" /\ {vdata[u] : u \in 0..2} = 0..2) =>
        \A u \in 0..2 :
            /\ sim_sets[u] = {p \in PatV : PLabel(p) = vdata[u]}
            /\ Cardinality(sim_sets[u]) = 1

\* C9: no two updates in progress at the same time access the same candidate
\* row or indicator bit with one of them writing it.
C9_NoConflictingAccess ==
    \A a \in running : \A b \in running :
        a # b => WriteSet(a) \cap (ReadSet(b) \cup WriteSet(b)) = {}

\* C12: InitPatternNClique(n) with n >= 1 returns a graph of n * (n - 1) edges
\* in which every vertex i has out-degree n - 1 and an out-neighbour list that
\* holds exactly the ids 0..n-1 other than i, each once, and no write was made
\* outside the indices 0..n-2 of a list.
C12_CliqueOutNeighbours ==
    (builder.pc = "returned" /\ builder.n >= 1) =>
        /\ builder.graph.num_edges_ = builder.n * (builder.n - 1)
        /\ builder.oob = {}
        /\ \A i \in 0..(builder.n - 1) :
             LET vx == builder.graph.vertexes_[i]
             IN /\ vx.outdegree_ = builder.n - 1
                /\ DOMAIN vx.out_edges_ = 0..(builder.n - 2)
                /\ {vx.out_edges_[k] : k \in DOMAIN vx.out_edges_}
                      = (0..(builder.n - 1)) \ {i}

\* C13: a call of the pattern builder with a vertex count <= 0 ends in the
\* InvalidArgument outcome: it never gets past its entry, so no count is
\* computed from the argument and no graph is returned.
C13_NonPositiveCountRejected ==
    (builder.pc # "idle" /\ builder.n <= 0) =>
        builder.pc \in {"entry", "InvalidArgument"}

\* C11: Scenario C. When the run is over and the labels drawn make both
\* triangles match the pattern (target vertex u carries the label of pattern
\* vertex u mod 3), every vertex of the deficient triangle 3, 4, 5 has an
\* empty candidate set and every vertex of the intact triangle 0, 1, 2 has
\* the candidates it was given at iteration 1 (the pattern vertices of its
\* label).
C11_ScenarioC ==
    (pc = "done" /\ \A u \in V : vdata[u] = PLabel(u % 3)) =>
        /\ \A u \in 3..5 : sim_sets[u] = {}
        /\ \A u \in 0..2 : sim_sets[u] = {p \in PatV : PLabel(p) = vdata[u]}

\* Number of candidate bits set by the initial-candidacy iteration.
InitialBits == Cardinality({up \in V \X Rows : up[2] \in ends[1][up[1]]})
\* Number of refinement iterations (iteration > 1) finished so far.
RefinementIterations == Len(ends) - 1

\* C14: with the full scan and fair execution the run reaches the end of an
\* iteration in which no bit was removed and after which it is declared
\* converged (set_last_iteration called for that iteration), and at most
\* InitialBits + 1 refinement iterations have been run by then.
C14_Termination ==
    <>(/\ pc = "after"
       /\ iteration >= 1
       /\ ~pruned
       /\ last_iteration = iteration
       /\ RefinementIterations <= InitialBits + 1)

C14_Witness ==
    /\ pc = "done"
    /\ ~scheduler
    /\ ~pruned
    /\ last_iteration = iteration
    /\ Len(ends) >= 1
    /\ InitialBits > 0

\* The child check as the kernel is specified: every out-neighbour q of p is
\* covered by an out-edge of u whose endpoint carries q's label and is still
\* a candidate of some pattern vertex.
ChildCheck(u, p) ==
    \A q \in PatOut(p) :
        \E e \in OutEdges(target, u) :
            vdata[e[2]] = PLabel(q) /\ indicator[e[2]]

\* C15: whenever update() is about to run the child check of a vertex u at
\* an iteration > 1, kernel_check_childs(u, p) returns, for every pattern
\* vertex p and whatever an unreturned call yields, true exactly when every
\* out-neighbour q of p is covered by some out-edge of u whose endpoint has
\* q's label and a set indicator bit, and false otherwise.
C15_ChildCheck ==
    (pc = "exec" /\ iteration > 1) =>
        \A u \in todo : \A p \in PatV : \A ub \in UbChoices(u) :
            kernel_check_childs(u, p, ub[p]) <=> ChildCheck(u, p)

\* The step is update(v) called at an iteration > 1.
RefinementStep(v) ==
    /\ pc = "exec"
    /\ iteration > 1
    /\ NextVertex(v)
    /\ todo' = todo \ {v}

\* C16: update(v) at an iteration > 1 removes from v's own row exactly the
\* candidates p whose child check fails, and leaves every other row of the
\* candidate set, every other indicator bit, every label and the pattern
\* graph as they were.
C16_RefinementFrame ==
    [][\A v \in V : RefinementStep(v) =>
          /\ \E ub \in UbChoices(v) :
                sim_sets'[v] = sim_sets[v] \ {p \in PatV : ~CheckU(v, p, ub[p])}
          /\ \A r \in Rows \ {v} : /\ sim_sets'[r] = sim_sets[r]
                                    /\ indicator'[r] = indicator[r]
          /\ vdata' = vdata
          /\ pattern' = pattern]_vars

\* The pattern vertices that carry the label of target vertex v.
SameLabel(v) == {p \in PatV : PLabel(p) = vdata[v]}

\* C17: update(v) at iteration 1 changes nothing when indicator_[v] is set;
\* otherwise it sets in v's row exactly the bits of the pattern vertices of
\* v's label, sets indicator_[v] exactly when there is one, and leaves the
\* other rows and indicator bits alone. A second call for the same vertex in
\* the same iteration changes nothing.
C17_InitialCandidacy ==
    [][(pc = "exec" /\ iteration = 1) =>
          /\ \A v \in V : (NextVertex(v) /\ todo' = todo \ {v}) =>
                /\ indicator[v] => (sim_sets' = sim_sets /\ indicator' = indicator)
                /\ ~indicator[v] => /\ sim_sets'[v] = SameLabel(v)
                                    /\ indicator'[v] <=> (SameLabel(v) # {})
                /\ \A r \in Rows \ {v} : /\ sim_sets'[r] = sim_sets[r]
                                          /\ indicator'[r] = indicator[r]
          /\ (todo' = todo) => (sim_sets' = sim_sets /\ indicator' = indicator)
      ]_vars

C17_Witness ==
    /\ pc = "exec"
    /\ iteration = 1
    /\ \E v \in scope \ todo : sim_sets[v] = SameLabel(v) /\ Cardinality(sim_sets[v]) >= 2
    /\ \E v \in scope \ todo : ~indicator[v] /\ sim_sets[v] = {}

\* C18: with the selective scheduler on, every target vertex (each is seeded
\* at iteration 0) is among the vertices the engine runs at iteration 1.
C18_SeedReschedulesSelf ==
    (scheduler /\ iteration = 1 /\ pc = "exec") => V \subseteq scope

\* C19: with the selective scheduler on, whenever an update at an iteration
\* > 1 removes a candidate bit of target vertex u, every neighbour of u in
\* the target graph (in- and out-neighbours) is queued for the next iteration
\* when the update returns.
C19_PruneReschedulesNeighbors ==
    [][\A v \in V : (scheduler /\ RefinementStep(v)) =>
          \A u \in V : sim_sets'[u] # sim_sets[u] =>
              Neighbors(target, u) \subseteq next_tasks']_vars

\* C20: set_last_iteration is never called at the end of iteration 0 or of
\* iteration 1: when the run is over, at least one refinement iteration
\* (iteration > 1) has been made.
C20_NoEarlyConvergence ==
    /\ last_iteration >= 0 => last_iteration > 1
    /\ pc = "done" => iteration > 1

\* The vertices reached from vertex 0 along directed edges of g in at most
\* k steps.
RECURSIVE SspReach(_, _)
SspReach(g, k) ==
    IF k = 0 THEN {0}
    ELSE LET r == SspReach(g, k - 1)
         IN r \cup {e[2] : e \in {f \in g : f[1] \in r}}
SspReachable(g) == SspReach(g, NumV)

\* C21: in the run of SspProgram started with every vertex and edge data 0,
\* a vertex has data 1 only if it is vertex 0 or can be reached from vertex 0
\* along directed edges, and an edge has data 1 only if its source vertex has
\* data 1.
C21_MarkedOnlyIfReachable ==
    ssp.pc # "idle" =>
        /\ \A v \in SspV : ssp.vdata[v] = 1 => v \in SspReachable(ssp.graph)
        /\ \A e \in ssp.graph : ssp.edata[e] = 1 => ssp.vdata[e[1]] = 1
====
